---- MODULE Spec2Model ----
(***************************************************************************)
(* Key agreement (agreement.rs) and key transport (key_transport.rs) of    *)
(* aws-lc-rs as state machines.                                            *)
(*                                                                         *)
(* Byte strings are run-length encoded: a sequence of runs [n, b] standing *)
(* for n copies of byte b, kept in normal form (no empty run, no two       *)
(* adjacent runs of the same byte), so that equal byte strings are equal   *)
(* values and the real lengths (32, 48, 65, 97, 768, 800, 1632) are kept.  *)
(***************************************************************************)
EXTENDS Integers, Sequences, FiniteSets, TLC

\* ------------------------------------------------------------------ bounds
\* Private seeds are drawn from the constant byte strings of bytes 0..MaxSeed
\* (and 0xFF).
MaxSeed == 2
\* The single-use counter of a key is capped here (it never passes 1).
MaxAgreements == 2

\* ------------------------------------------------------------- byte strings
RECURSIVE Norm(_)
Norm(s) ==
  IF s = <<>> THEN <<>>
  ELSE LET h == Head(s)
           t == Norm(Tail(s))
       IN  IF h.n = 0 THEN t
           ELSE IF t # <<>> /\ t[1].b = h.b
                THEN <<[n |-> h.n + t[1].n, b |-> h.b]>> \o Tail(t)
                ELSE <<h>> \o t

\* [b; n]: n copies of byte b.
Fill(n, b) == Norm(<<[n |-> n, b |-> b]>>)

\* s followed by t.
Cat(s, t) == Norm(s \o t)

RECURSIVE ByteLen(_)
ByteLen(s) == IF s = <<>> THEN 0 ELSE Head(s).n + ByteLen(Tail(s))

\* &s[0..k], for k <= len.
RECURSIVE Prefix(_, _)
Prefix(s, k) ==
  IF k = 0 \/ s = <<>> THEN <<>>
  ELSE IF Head(s).n >= k THEN <<[n |-> k, b |-> Head(s).b]>>
       ELSE <<Head(s)>> \o Prefix(Tail(s), k - Head(s).n)

\* s[i], 0-based, for i < len.
RECURSIVE ByteAt(_, _)
ByteAt(s, i) ==
  IF Head(s).n > i THEN Head(s).b ELSE ByteAt(Tail(s), i - Head(s).n)

\* Zeroize::zeroize on an array or on a Vec's contents: every byte becomes 0.
zeroize(s) == Fill(ByteLen(s), 0)

IsZero(s) == \A i \in DOMAIN s : s[i].b = 0

\* dst[0..len(src)] = src, the rest of dst untouched (a provider writing its
\* output at the start of a caller's buffer).
WriteAt0(dst, src) ==
  LET k == ByteLen(src)
      rest == [i \in 1..Len(dst) |->
                 LET before == ByteLen(SubSeq(dst, 1, i - 1))
                     keep == IF before >= k THEN dst[i].n
                             ELSE IF before + dst[i].n <= k THEN 0
                             ELSE before + dst[i].n - k
                 IN  [n |-> keep, b |-> dst[i].b]]
  IN  Norm(src \o rest)

\* ------------------------------------------------------ algorithm registry
AlgorithmID == {"ECDH_P256", "ECDH_P384", "X25519"}

nid(id) ==
  CASE id = "ECDH_P256" -> "NID_X9_62_prime256v1"
    [] id = "ECDH_P384" -> "NID_secp384r1"
    [] id = "X25519" -> "NID_X25519"

pub_key_len(id) ==
  CASE id = "ECDH_P256" -> 65
    [] id = "ECDH_P384" -> 97
    [] id = "X25519" -> 32

X25519_PRIVATE_KEY_LEN == 32
ECDH_P256_PRIVATE_KEY_LEN == 32
ECDH_P384_PRIVATE_KEY_LEN == 48
X25519_PUBLIC_VALUE_LEN == 32
X25519_SHARED_KEY_LEN == 32
MAX_AGREEMENT_SECRET_LEN == 48
MAX_PUBLIC_KEY_LEN == 97

Ok(v) == [ok |-> TRUE, val |-> v]
Err(e) == [ok |-> FALSE, val |-> e]
Unspecified == "Unspecified"

\* ------------------------------------------- the provider, at its boundary
\* The curve arithmetic is the provider's.  It is modelled by a toy group on
\* single bytes that keeps what the engines rely on: the public value is a
\* function of the private scalar, the shared value is the same from both
\* sides, out-of-range scalars and off-curve points are rejected, and each
\* call can fail internally (the fault names the call that does).
PubByte(a) == 64 + (a % 64)
DhByte(a, p) == 128 + (((a % 64) * (p % 64)) % 64)

\* The byte a private seed fills its buffer with (0xFF: above the group order).
SeedBytes == (0..MaxSeed) \cup {255}

EC_GROUP_get_degree(group) ==
  CASE group = "NID_X9_62_prime256v1" -> 256
    [] group = "NID_secp384r1" -> 384

FieldBytes(group) == (EC_GROUP_get_degree(group) + 7) \div 8

\* import_private_scalar: the scalar must lie in [1, order - 1].
ec_key_from_private(group, priv_key, fault) ==
  IF fault = "ec_key_from_private" \/ IsZero(priv_key)
     \/ (\A i \in DOMAIN priv_key : priv_key[i].b = 255)
  THEN Err(Unspecified)
  ELSE Ok([group |-> group, priv |-> priv_key])

\* derive_public_point: 0x04 || X || Y.
marshal_public_key_to_buffer(ec_key, fault) ==
  IF fault = "marshal_public_key_to_buffer" THEN Err(Unspecified)
  ELSE Ok(Cat(Fill(1, 4),
              Fill(2 * FieldBytes(ec_key.group), PubByte(ByteAt(ec_key.priv, 0)))))

X25519_public_from_private(priv_key) ==
  Fill(X25519_PUBLIC_VALUE_LEN, PubByte(ByteAt(priv_key, 0)))

\* ec_point_from_bytes: an uncompressed point of this group.
ValidPoint(group, bytes) ==
  /\ ByteLen(bytes) = 1 + 2 * FieldBytes(group)
  /\ Len(bytes) = 2
  /\ bytes[1] = [n |-> 1, b |-> 4]
  /\ bytes[2].b \in 64..127

\* ecdh_compute: the length written, or -1.
ECDH_compute_key(max_secret_len, peer_pub_key, priv_ec_key, fault) ==
  IF fault = "ECDH_compute_key" THEN [outlen |-> -1, out |-> <<>>]
  ELSE [outlen |-> max_secret_len,
        out |-> Fill(max_secret_len,
                     DhByte(ByteAt(priv_ec_key.priv, 0), ByteAt(peer_pub_key, 1)))]

\* x25519_scalar_mult: 0 when the output is all zero (a low-order point, here
\* the all-zero public value), else 1.
aws_lc_X25519(priv_key, peer_pub_key) ==
  IF IsZero(peer_pub_key)
  THEN [flag |-> 0, out |-> Fill(X25519_SHARED_KEY_LEN, 0)]
  ELSE [flag |-> 1,
        out |-> Fill(X25519_SHARED_KEY_LEN,
                     DhByte(ByteAt(priv_key, 0), ByteAt(peer_pub_key, 0)))]

\* ---------------------------------------------------- key agreement engine
\* A buffer at the moment its memory is released.
Released(name, bytes) == [buf |-> name, bytes |-> bytes]

\* KeyInner: X25519 holds the raw scalar, the EC variants a provider EC_KEY.
KeyInner_X25519(priv_key) == [alg |-> "X25519", priv |-> priv_key]
KeyInner_EC(alg, ec_key) == [alg |-> alg, ec_key |-> ec_key]

\* impl Drop for KeyInner: the X25519 scalar is zeroized and then released;
\* the EC_KEY is handed back to the provider.
KeyInner_drop(inner) ==
  IF inner.alg = "X25519"
  THEN [released |-> <<Released("KeyInner::X25519", zeroize(inner.priv))>>,
        freed |-> <<>>]
  ELSE [released |-> <<>>, freed |-> <<"EC_KEY_free">>]

\* SecureRandom::fill on a zero-initialised buffer of len bytes.
rng_fill(len, rng) ==
  IF rng.ok THEN Ok(Fill(len, rng.byte)) ELSE Err(Unspecified)

\* Mutant: the scalar kept is not the bytes given.
from_x25519_private_key_replaced(priv_key) ==
  KeyInner_X25519(Fill(X25519_PRIVATE_KEY_LEN, 1))

from_x25519_private_key(priv_key) == KeyInner_X25519(priv_key)

\* from_p256_private_key / from_p384_private_key.
from_ec_private_key(alg, priv_key, fault) ==
  IF fault = "ec_group_from_nid" THEN Err(Unspecified)
  ELSE IF fault = "DetachableLcPtr::try_from" THEN Err(Unspecified)
  ELSE LET ec_key == ec_key_from_private(nid(alg), priv_key, fault)
       IN  IF ~ec_key.ok THEN Err(Unspecified)
           ELSE Ok(KeyInner_EC(alg, ec_key.val))

PrivateKeyLen(alg) ==
  CASE alg = "X25519" -> X25519_PRIVATE_KEY_LEN
    [] alg = "ECDH_P256" -> ECDH_P256_PRIVATE_KEY_LEN
    [] alg = "ECDH_P384" -> ECDH_P384_PRIVATE_KEY_LEN

\* EphemeralPrivateKey::generate: the result, and the local seed buffer as it
\* is when the frame is left.
generate(alg, rng, fault) ==
  LET priv_key == rng_fill(PrivateKeyLen(alg), rng)
      seed == IF priv_key.ok THEN priv_key.val ELSE Fill(PrivateKeyLen(alg), 0)
  IN  [result |-> IF ~priv_key.ok THEN Err(Unspecified)
                  ELSE IF alg = "X25519"
                       THEN Ok(from_x25519_private_key(priv_key.val))
                       ELSE from_ec_private_key(alg, priv_key.val, fault),
       released |-> <<Released("generate::priv_key", seed)>>]

\* EphemeralPrivateKey::compute_public_key: PublicKey {alg, public_key, len}.
compute_public_key(inner, fault) ==
  LET buffer == Fill(MAX_PUBLIC_KEY_LEN, 0)
  IN  IF inner.alg = "X25519"
      THEN Ok([alg |-> inner.alg,
               public_key |-> WriteAt0(buffer, X25519_public_from_private(inner.priv)),
               len |-> X25519_PUBLIC_VALUE_LEN])
      ELSE LET m == marshal_public_key_to_buffer(inner.ec_key, fault)
           IN  IF ~m.ok THEN Err(Unspecified)
               ELSE Ok([alg |-> inner.alg,
                        public_key |-> WriteAt0(buffer, m.val),
                        len |-> ByteLen(m.val)])

\* Mutant: the whole buffer is handed out.
PublicKeyWholeBuffer(pk) == pk.public_key

\* impl AsRef<[u8]> for PublicKey.
PublicKey_as_ref(pk) == Prefix(pk.public_key, pk.len)

\* The provider calls of ec_key_ecdh, in the order the code makes them.
EcdhSteps ==
  << "ec_group_from_nid", "ec_point_from_bytes", "ec_key_from_public_point",
     "EC_KEY_get0_group(priv)", "EC_GROUP_get_curve_name",
     "EC_KEY_get0_group(peer)", "EC_GROUP_cmp", "EC_KEY_get0_public_key",
     "EC_GROUP_get_degree", "ECDH_compute_key" >>

supported_curves == {"NID_X9_62_prime256v1", "NID_secp384r1"}

\* Whether ec_key_ecdh returns Err(()) at this step.
EcdhStepFails(step, priv_ec_key, peer_pub_key_bytes, group, fault) ==
  LET max_secret_len == (EC_GROUP_get_degree(priv_ec_key.group) + 7) \div 8
  IN  \/ step = "ec_group_from_nid" /\ fault = step
      \/ step = "ec_point_from_bytes"
         /\ (fault = step \/ ~ValidPoint(group, peer_pub_key_bytes))
      \/ step = "ec_key_from_public_point" /\ fault = step
      \/ step = "EC_KEY_get0_group(priv)" /\ fault = step
      \/ step = "EC_GROUP_get_curve_name"
         /\ priv_ec_key.group \notin supported_curves
      \/ step = "EC_KEY_get0_group(peer)" /\ fault = step
      \/ step = "EC_GROUP_cmp" /\ priv_ec_key.group # group
      \/ step = "EC_KEY_get0_public_key" /\ fault = step
      \/ step = "ECDH_compute_key"
         /\ 0 >= ECDH_compute_key(max_secret_len, peer_pub_key_bytes,
                                  priv_ec_key, fault).outlen

\* ec_key_ecdh: ok, the provider calls made, the buffer afterwards and the
\* slice &buffer[0..outlen] returned on success.
ec_key_ecdh(buffer, priv_ec_key, peer_pub_key_bytes, group, fault) ==
  LET failing == {i \in 1..Len(EcdhSteps) :
                    EcdhStepFails(EcdhSteps[i], priv_ec_key,
                                  peer_pub_key_bytes, group, fault)}
      stop == IF failing = {} THEN Len(EcdhSteps)
              ELSE CHOOSE i \in failing : \A j \in failing : i <= j
      max_secret_len == (EC_GROUP_get_degree(priv_ec_key.group) + 7) \div 8
      r == ECDH_compute_key(max_secret_len, peer_pub_key_bytes, priv_ec_key, fault)
      written == IF stop = Len(EcdhSteps) THEN WriteAt0(buffer, r.out) ELSE buffer
  IN  [ok |-> failing = {},
       calls |-> SubSeq(EcdhSteps, 1, stop),
       buffer |-> written,
       secret |-> IF failing = {} THEN Prefix(written, r.outlen) ELSE <<>>]

\* Mutant: the provider's return value is not looked at.
X25519SucceededAlways(flag) == TRUE

\* 1 == aws_lc::X25519(..) in x25519_diffie_hellman.
X25519Succeeded(flag) == 1 = flag

\* x25519_diffie_hellman, and the slice &buffer[0..X25519_SHARED_KEY_LEN].
x25519_diffie_hellman(out_shared_key, priv_key, peer_pub_key) ==
  LET r == aws_lc_X25519(priv_key, peer_pub_key)
      written == WriteAt0(out_shared_key, r.out)
  IN  [ok |-> X25519Succeeded(r.flag),
       calls |-> <<"X25519">>,
       buffer |-> written,
       secret |-> IF X25519Succeeded(r.flag) THEN Prefix(written, X25519_SHARED_KEY_LEN)
                  ELSE <<>>]

\* Mutant: the algorithm tags are not compared.
AlgorithmMismatchUnchecked(peer_alg, expected_alg) == FALSE

\* if peer_public_key.alg != expected_alg { return Err(error_value) }
AlgorithmMismatch(peer_alg, expected_alg) == peer_alg # expected_alg

\* Mutant: only too-short input is refused (longer input would be truncated).
LengthMismatchTruncating(peer_pub_bytes, expected_pub_key_len) ==
  ByteLen(peer_pub_bytes) < expected_pub_key_len

\* if peer_pub_bytes.len() != expected_pub_key_len { return Err(error_value) }
LengthMismatch(peer_pub_bytes, expected_pub_key_len) ==
  ByteLen(peer_pub_bytes) # expected_pub_key_len

\* Mutant: the provider's verdict is ignored.
AgreementFailedIgnored(r) == FALSE

\* if result.is_err() { return Err(error_value) }
AgreementFailed(r) == ~r.ok

\* kdf(secret): the arguments the closure is invoked with, one per invocation.
KdfInvocations(secret) == <<secret>>

\* Mutant: a failure of kdf is reported as error_value.
ReturnAfterKdfCollapsed(kdf_result, error_value) ==
  IF kdf_result.ok THEN kdf_result ELSE Err(error_value)

\* The value agree_ephemeral returns once kdf has returned.
ReturnAfterKdf(kdf_result, error_value) == kdf_result

\* The local secret buffer when agree_ephemeral's frame is left.
BufferAtExit(buffer) == buffer

\* agree_ephemeral.  The key is taken by value, so it is dropped on every path;
\* kdf is the closure's outcome.
agree_ephemeral(my_private_key, peer_public_key, error_value, kdf, fault) ==
  LET expected_alg == my_private_key.alg
      expected_pub_key_len == pub_key_len(expected_alg)
      expected_nid == nid(expected_alg)
      drop == KeyInner_drop(my_private_key)
      buffer == Fill(MAX_AGREEMENT_SECRET_LEN, 0)
      r == IF expected_alg = "X25519"
           THEN x25519_diffie_hellman(buffer, my_private_key.priv,
                                      peer_public_key.bytes)
           ELSE ec_key_ecdh(buffer, my_private_key.ec_key,
                            peer_public_key.bytes, expected_nid, fault)
  IN  IF AlgorithmMismatch(peer_public_key.alg, expected_alg)
      THEN [result |-> Err(error_value), kdfCalls |-> <<>>, calls |-> <<>>,
            gate |-> "algorithm", released |-> drop.released, freed |-> drop.freed]
      ELSE IF LengthMismatch(peer_public_key.bytes, expected_pub_key_len)
      THEN [result |-> Err(error_value), kdfCalls |-> <<>>, calls |-> <<>>,
            gate |-> "length", released |-> drop.released, freed |-> drop.freed]
      ELSE IF AgreementFailed(r)
      THEN [result |-> Err(error_value), kdfCalls |-> <<>>, calls |-> r.calls,
            gate |-> "provider",
            released |-> <<Released("agree_ephemeral::buffer",
                                    BufferAtExit(r.buffer))>> \o drop.released,
            freed |-> drop.freed]
      ELSE [result |-> ReturnAfterKdf(kdf, error_value),
            kdfCalls |-> KdfInvocations(r.secret), calls |-> r.calls,
            gate |-> "none",
            released |-> <<Released("agree_ephemeral::buffer",
                                    BufferAtExit(r.buffer))>> \o drop.released,
            freed |-> drop.freed]

\* ---------------------------------------------------- key transport engine
KYBER512_SECRETKEYBYTES == 1632
KYBER512_PUBLICKEYBYTES == 800
KYBER512_CIPHERTEXTBYTES == 768
KYBER512_BYTES == 32

KemAlgorithm == {"KYBER512_R3"}

kem_nid(alg) == CASE alg = "KYBER512_R3" -> "NID_KYBER512_R3"
get_pubkey_len(alg) == CASE alg = "KYBER512_R3" -> KYBER512_PUBLICKEYBYTES
get_privkey_len(alg) == CASE alg = "KYBER512_R3" -> KYBER512_SECRETKEYBYTES

KeyRejected == "KeyRejected"

\* The provider's KEM, at its boundary: a toy scheme on single bytes that keeps
\* what the engine relies on.  A key pair is made from coins d; the raw keys
\* have the scheme's lengths; decapsulation with the matching secret key
\* recovers the secret of an encapsulation, and any other ciphertext of the
\* right length yields a rejection secret; raw import checks the length only.
\* An EVP_PKEY holds a secret part and a public part; <<>> is an absent part.
KemSk(d) == Fill(KYBER512_SECRETKEYBYTES, d)
KemPkOfSk(sk) == Fill(KYBER512_PUBLICKEYBYTES, PubByte(ByteAt(sk, 0)))
KemSs(p, m) == 128 + ((4 * (p % 32) + m) % 128)
NULL == [sk |-> <<>>, pk |-> <<>>, null |-> TRUE]
EVP_PKEY(sk, pk) == [sk |-> sk, pk |-> pk, null |-> FALSE]

\* kem_keygen
EVP_PKEY_keygen(nidv, d, fault) ==
  IF fault = "EVP_PKEY_keygen" THEN NULL
  ELSE EVP_PKEY(KemSk(d), KemPkOfSk(KemSk(d)))

\* kem_export_raw: 1 and the bytes written, or 0 when the part is absent.
EVP_PKEY_get_raw_private_key(pkey, fault) ==
  IF fault = "EVP_PKEY_get_raw_private_key" \/ pkey.sk = <<>>
  THEN [ret |-> 0, out |-> <<>>] ELSE [ret |-> 1, out |-> pkey.sk]

EVP_PKEY_get_raw_public_key(pkey, fault) ==
  IF fault = "EVP_PKEY_get_raw_public_key" \/ pkey.pk = <<>>
  THEN [ret |-> 0, out |-> <<>>] ELSE [ret |-> 1, out |-> pkey.pk]

\* kem_import_raw (private): reads len bytes at in.  Whether the imported
\* object also carries the public part is the provider's choice (derives).
EVP_PKEY_kem_new_raw_secret_key(nidv, in, len, derives, fault) ==
  IF fault = "EVP_PKEY_kem_new_raw_secret_key" \/ len # KYBER512_SECRETKEYBYTES
  THEN NULL
  ELSE EVP_PKEY(in, IF derives THEN KemPkOfSk(in) ELSE <<>>)

\* kem_import_raw (public): reads len bytes at in.
EVP_PKEY_kem_new_raw_public_key(nidv, in, len, fault) ==
  IF fault = "EVP_PKEY_kem_new_raw_public_key" \/ len # KYBER512_PUBLICKEYBYTES
  THEN NULL
  ELSE EVP_PKEY(<<>>, in)

\* kem_encapsulate with coins m.  A call that fails internally has written
\* part of its output.
EVP_PKEY_encapsulate(pkey, m, fault) ==
  IF pkey.pk = <<>>
  THEN [ret |-> 0, ciphertext |-> <<>>, shared_secret |-> <<>>]
  ELSE IF fault = "EVP_PKEY_encapsulate"
  THEN [ret |-> 0,
        ciphertext |-> Fill(KYBER512_CIPHERTEXTBYTES \div 2, ByteAt(pkey.pk, 0)),
        shared_secret |-> Fill(KYBER512_BYTES \div 2, KemSs(ByteAt(pkey.pk, 0), m))]
  ELSE [ret |-> 1,
        ciphertext |-> Cat(Fill(KYBER512_CIPHERTEXTBYTES \div 2, ByteAt(pkey.pk, 0)),
                           Fill(KYBER512_CIPHERTEXTBYTES \div 2, m)),
        shared_secret |-> Fill(KYBER512_BYTES, KemSs(ByteAt(pkey.pk, 0), m))]

\* kem_decapsulate.  A call that fails internally has written part of its
\* output.
EVP_PKEY_decapsulate(pkey, ciphertext, ciphertext_len, fault) ==
  IF pkey.sk = <<>> \/ ciphertext_len # KYBER512_CIPHERTEXTBYTES
  THEN [ret |-> 0, shared_secret |-> <<>>]
  ELSE IF fault = "EVP_PKEY_decapsulate"
  THEN [ret |-> 0, shared_secret |-> Fill(KYBER512_BYTES \div 2, 127)]
  ELSE [ret |-> 1,
        shared_secret |->
          IF ByteAt(ciphertext, 0) = PubByte(ByteAt(pkey.sk, 0))
          THEN Fill(KYBER512_BYTES,
                    KemSs(ByteAt(ciphertext, 0),
                          ByteAt(ciphertext, KYBER512_CIPHERTEXTBYTES \div 2)))
          ELSE Fill(KYBER512_BYTES, 127)]

\* The bytes a read of len bytes at ptr sees: the slice's first len bytes, or,
\* past the end of a shorter slice, whatever lies behind it (garbage).
ReadRaw(bytes, len, garbage) ==
  IF ByteLen(bytes) >= len THEN Prefix(bytes, len)
  ELSE Cat(bytes, Fill(len - ByteLen(bytes), garbage))

KemPrivateKey(algorithm, context, priv_key) ==
  [algorithm |-> algorithm, context |-> context, priv_key |-> priv_key]
KemPublicKey(algorithm, context, pub_key) ==
  [algorithm |-> algorithm, context |-> context, pub_key |-> pub_key]

\* kem_key_generate
kem_key_generate(nidv, d, fault) ==
  IF fault = "EVP_PKEY_CTX_new_id" THEN Err(Unspecified)
  ELSE IF fault \in {"EVP_PKEY_keygen_init", "EVP_PKEY_CTX_kem_set_params"}
          \/ EVP_PKEY_keygen(nidv, d, fault).null
       THEN Err(Unspecified)
       ELSE Ok(EVP_PKEY_keygen(nidv, d, fault))

\* KemPrivateKey::generate
KemPrivateKey_generate(alg, d, fault) ==
  LET kyber_key == kem_key_generate(kem_nid(alg), d, fault)
      raw == EVP_PKEY_get_raw_private_key(kyber_key.val, fault)
      priv_key_bytes == WriteAt0(Fill(get_privkey_len(alg), 0), raw.out)
  IN  IF ~kyber_key.ok THEN [result |-> Err(Unspecified), released |-> <<>>]
      ELSE IF 1 # raw.ret
      THEN [result |-> Err(Unspecified),
            released |-> <<Released("generate::priv_key_bytes", priv_key_bytes)>>]
      ELSE [result |-> Ok(KemPrivateKey(alg, kyber_key.val, priv_key_bytes)),
            released |-> <<>>]

\* Mutant: the failed import is reported as a rejected key.
PubkeyCopyNullErrorRejected == KeyRejected

\* The error of compute_public_key when pubkey_ctx_copy.is_null().
PubkeyCopyNullError == Unspecified

\* KemPrivateKey::compute_public_key
KemPrivateKey_compute_public_key(self, fault) ==
  LET pubkey_len == KYBER512_PUBLICKEYBYTES
      raw == EVP_PKEY_get_raw_public_key(self.context, fault)
      pubkey_bytes == WriteAt0(Fill(get_pubkey_len(self.algorithm), 0), raw.out)
      pubkey_ctx_copy ==
        EVP_PKEY_kem_new_raw_public_key(kem_nid(self.algorithm),
                                        ReadRaw(pubkey_bytes, pubkey_len, 0),
                                        pubkey_len, fault)
  IN  IF 1 # raw.ret THEN Err(Unspecified)
      ELSE IF pubkey_ctx_copy.null THEN Err(PubkeyCopyNullError)
      ELSE Ok(KemPublicKey(self.algorithm, pubkey_ctx_copy, pubkey_bytes))

\* KemPrivateKey::new
KemPrivateKey_new(alg, bytes, derives, fault) ==
  LET pkey == EVP_PKEY_kem_new_raw_secret_key(
                kem_nid(alg), ReadRaw(bytes, ByteLen(bytes), 0), ByteLen(bytes),
                derives, fault)
  IN  IF pkey.null THEN Err(KeyRejected)
      ELSE Ok(KemPrivateKey(alg, pkey, bytes))

\* The length KemPublicKey::new hands to the provider with bytes.as_ptr().
PubKeyImportLen(alg, bytes) == get_pubkey_len(alg)

\* KemPublicKey::new
KemPublicKey_new(alg, bytes, garbage, fault) ==
  LET len == PubKeyImportLen(alg, bytes)
      pubkey_ctx == EVP_PKEY_kem_new_raw_public_key(
                      kem_nid(alg), ReadRaw(bytes, len, garbage), len, fault)
  IN  IF pubkey_ctx.null THEN Err(KeyRejected)
      ELSE Ok(KemPublicKey(alg, pubkey_ctx, bytes))

\* impl AsRef<[u8]> for KemPrivateKey / KemPublicKey
KemPrivateKey_as_ref(self) == self.priv_key
KemPublicKey_as_ref(self) == self.pub_key

\* Mutant: the secret is wiped before kdf sees it.
DecapsKdfArgWiped(shared_secret) == zeroize(shared_secret)

\* kdf(&shared_secret) in decapsulate.
DecapsKdfArg(shared_secret) == shared_secret

\* Mutant: the secret buffer is left as the provider left it.
DecapsSecretOnFailureKept(shared_secret) == shared_secret

\* shared_secret.zeroize() before return Err(Unspecified) in decapsulate.
DecapsSecretOnFailure(shared_secret) == zeroize(shared_secret)

\* KemPrivateKey::decapsulate
decapsulate(self, ciphertext, kdf, fault) ==
  LET shared_secret_len == KYBER512_BYTES
      zeroed == Fill(shared_secret_len, 0)
      r == EVP_PKEY_decapsulate(self.context, ciphertext, ByteLen(ciphertext), fault)
      shared_secret == WriteAt0(zeroed, r.shared_secret)
  IN  IF fault = "EVP_PKEY_CTX_new"
      THEN [result |-> Err(Unspecified), kdfCalls |-> <<>>, released |-> <<>>]
      ELSE IF r.ret # 1
      THEN [result |-> Err(Unspecified), kdfCalls |-> <<>>,
            released |-> <<Released("decapsulate::shared_secret",
                                    DecapsSecretOnFailure(shared_secret))>>]
      ELSE [result |-> kdf, kdfCalls |-> <<DecapsKdfArg(shared_secret)>>,
            released |-> <<Released("decapsulate::shared_secret", shared_secret)>>]

\* Mutant: the provider's return value is not looked at.
EncapsFailedIgnored(ret) == FALSE

\* if EVP_PKEY_encapsulate(..) != 1 in encapsulate.
EncapsFailed(ret) == ret # 1

\* KemPublicKey::encapsulate; a kdf invocation is the pair (ciphertext, secret).
encapsulate(self, m, kdf, fault) ==
  LET ciphertext_len == KYBER512_CIPHERTEXTBYTES
      shared_secret_len == KYBER512_BYTES
      r == EVP_PKEY_encapsulate(self.context, m, fault)
      ciphertext == WriteAt0(Fill(ciphertext_len, 0), r.ciphertext)
      shared_secret == WriteAt0(Fill(shared_secret_len, 0), r.shared_secret)
  IN  IF fault = "EVP_PKEY_CTX_new"
      THEN [result |-> Err(Unspecified), kdfCalls |-> <<>>, released |-> <<>>]
      ELSE IF EncapsFailed(r.ret)
      THEN [result |-> Err(Unspecified), kdfCalls |-> <<>>,
            released |-> <<Released("encapsulate::ciphertext", zeroize(ciphertext)),
                           Released("encapsulate::shared_secret",
                                    zeroize(shared_secret))>>]
      ELSE [result |-> kdf,
            kdfCalls |-> <<[ciphertext |-> ciphertext,
                            shared_secret |-> shared_secret]>>,
            released |-> <<Released("encapsulate::ciphertext", ciphertext),
                           Released("encapsulate::shared_secret", shared_secret)>>]

\* A KemPrivateKey going out of scope: no Drop impl, so the LcPtr frees the
\* EVP_PKEY and the Vec<u8> releases priv_key as it is.
KemPrivateKey_drop(self) ==
  [released |-> <<Released("KemPrivateKey::priv_key", self.priv_key)>>,
   freed |-> <<"EVP_PKEY_free">>]

\* Provider handles.  A call's handle events, in the order the code makes
\* them: a handle comes to exist when the provider returns it non-null, and
\* is freed when the LcPtr that owns it goes out of scope.  An LcPtr moved
\* into a returned key object is not freed by the call.
New(h) == [ev |-> "new", h |-> h]
Free(h) == [ev |-> "free", h |-> h]

\* Mutant: the pointer is used raw, no LcPtr owns it.
LcPtrScopeLeaked(h, body) == <<New(h)>> \o body

\* let x = LcPtr::new(ptr)?; body: x is freed when the scope is left, on every
\* return of body.
LcPtrScope(h, body) == <<New(h)>> \o body \o <<Free(h)>>

\* kem_key_generate: ctx is scoped; key_raw is null unless keygen succeeded,
\* so key_raw.free() on the failure path frees nothing.
kem_key_generate_handles(nidv, d, fault) ==
  IF fault = "EVP_PKEY_CTX_new_id" THEN <<>>
  ELSE LcPtrScope("EVP_PKEY_CTX",
         IF fault \in {"EVP_PKEY_keygen_init", "EVP_PKEY_CTX_kem_set_params"}
            \/ EVP_PKEY_keygen(nidv, d, fault).null
         THEN <<>>
         ELSE <<New("EVP_PKEY")>>)

\* KemPrivateKey::generate: kyber_key is dropped when the export fails, moved
\* into the key otherwise.
KemPrivateKey_generate_handles(alg, d, fault) ==
  LET kyber_key == kem_key_generate(kem_nid(alg), d, fault)
      g == kem_key_generate_handles(kem_nid(alg), d, fault)
  IN  IF ~kyber_key.ok THEN g
      ELSE IF 1 # EVP_PKEY_get_raw_private_key(kyber_key.val, fault).ret
      THEN g \o <<Free("EVP_PKEY")>>
      ELSE g

\* KemPrivateKey::compute_public_key: pubkey_ctx_copy, when not null, is
\* moved into the public key.
KemPrivateKey_compute_public_key_handles(self, fault) ==
  IF KemPrivateKey_compute_public_key(self, fault).ok
  THEN <<New("EVP_PKEY")>> ELSE <<>>

\* KemPrivateKey::new: pkey, when not null, is moved into the key.
KemPrivateKey_new_handles(alg, bytes, derives, fault) ==
  IF KemPrivateKey_new(alg, bytes, derives, fault).ok
  THEN <<New("EVP_PKEY")>> ELSE <<>>

\* KemPublicKey::new: pubkey_ctx, when not null, is moved into the key.
KemPublicKey_new_handles(alg, bytes, garbage, fault) ==
  IF KemPublicKey_new(alg, bytes, garbage, fault).ok
  THEN <<New("EVP_PKEY")>> ELSE <<>>

\* encapsulate / decapsulate: the per-call ctx is scoped over the provider
\* call, both returns and kdf.
KemCtx_handles(fault) ==
  IF fault = "EVP_PKEY_CTX_new" THEN <<>> ELSE LcPtrScope("EVP_PKEY_CTX", <<>>)

\* ------------------------------------------------------------------- state
VARIABLES
  keys,        \* each EphemeralPrivateKey: unborn, live (its KeyInner), moved or dropped
  agreements,  \* how many agree_ephemeral calls each key has taken part in
  last,        \* the last call: its inputs, what it returned and what it did
  kemPriv,     \* each KemPrivateKey: unborn, live (its fields) or dropped
  kemPub,      \* each KemPublicKey: unborn or live (its fields)
  exchange     \* what the kdf closure of the last successful encapsulate kept

agreementVars == <<keys, agreements>>
kemVars == <<kemPriv, kemPub, exchange>>
vars == <<keys, agreements, last, kemPriv, kemPub, exchange>>

\* One key object per behaviour: key objects share no state.
Keys == {"k1"}

Unborn == [st |-> "unborn"]
Live(inner) == [st |-> "live", inner |-> inner]
\* The object after it was passed by value to agree_ephemeral.
Moved == [st |-> "moved"]
Dropped == [st |-> "dropped"]

error_value == "error_value"

\* What the caller's kdf closure returns when it is invoked.
KdfOutcomes == {Ok("R"), Err("kdf_error"), Err(error_value)}

RngOutcomes == {[ok |-> TRUE, byte |-> b] : b \in SeedBytes}
                 \cup {[ok |-> FALSE, byte |-> 0]}

\* A public key as a peer with scalar byte a would send it.
WellFormed(alg, a) ==
  IF alg = "X25519" THEN Fill(X25519_PUBLIC_VALUE_LEN, PubByte(a))
  ELSE Cat(Fill(1, 4), Fill(2 * FieldBytes(nid(alg)), PubByte(a)))

\* Peer bytes: well formed for some algorithm, one byte short, one byte long,
\* all zero, and (EC) of the right length with an off-curve coordinate.
PeerBytes ==
  UNION {
    {WellFormed(alg, a) : a \in 1..MaxSeed}
      \cup {Prefix(WellFormed(alg, 1), pub_key_len(alg) - 1),
            Cat(WellFormed(alg, 1), Fill(1, 0)),
            Fill(pub_key_len(alg), 0),
            Cat(Fill(1, 4), Fill(pub_key_len(alg) - 1, 3))}
    : alg \in AlgorithmID }

\* UnparsedPublicKey::new: no validation.
UnparsedPublicKey_new(algorithm, bytes) == [alg |-> algorithm, bytes |-> bytes]

GenerateFaults == {"none", "ec_group_from_nid", "DetachableLcPtr::try_from",
                   "ec_key_from_private"}

AgreeFaults == {"none", "ec_group_from_nid", "ec_point_from_bytes",
                "ec_key_from_public_point", "EC_KEY_get0_group(priv)",
                "EC_KEY_get0_group(peer)", "EC_KEY_get0_public_key",
                "ECDH_compute_key"}

\* The faults the provider can show in a call on this key: X25519 keys make no
\* call that fails internally.
FaultsFor(inner, faults) == IF inner.alg = "X25519" THEN {"none"} ELSE faults

NoCall ==
  [op |-> "none", key |-> "none", inner |-> Unborn, peer |-> Unborn,
   kdf |-> Unborn, fault |-> "none", result |-> Unborn, kdfCalls |-> <<>>,
   calls |-> <<>>, gate |-> "none", released |-> <<>>, freed |-> <<>>,
   handles |-> <<>>]

\* The generated private key and one made from raw bytes; the public key
\* computed from a private key and one made from raw bytes.
KemPrivs == {"generated", "imported"}
KemPubs == {"computed", "imported"}

\* A live KEM key, with where its key material comes from (the generated key
\* pair, or "raw" bytes of the caller) and the call that made the object.
KemLive(inner, origin, made) ==
  [st |-> "live", inner |-> inner, origin |-> origin, made |-> made]

NoExchange ==
  [origin |-> "none", made |-> "none", ciphertext |-> <<>>, shared_secret |-> <<>>]

Init ==
  /\ keys = [k \in Keys |-> Unborn]
  /\ agreements = [k \in Keys |-> 0]
  /\ last = NoCall
  /\ kemPriv = [k \in KemPrivs |-> Unborn]
  /\ kemPub = [k \in KemPubs |-> Unborn]
  /\ exchange = NoExchange

\* let key = EphemeralPrivateKey::generate(alg, rng)
Generate(k, alg, rng, fault) ==
  /\ keys[k] = Unborn
  /\ LET g == generate(alg, rng, fault)
     IN  /\ keys' = [keys EXCEPT ![k] = IF g.result.ok THEN Live(g.result.val)
                                        ELSE Dropped]
         /\ last' = [NoCall EXCEPT !.op = "generate", !.key = k,
                                   !.peer = [alg |-> alg, rng |-> rng],
                                   !.fault = fault, !.result = g.result,
                                   !.released = g.released]
  /\ UNCHANGED <<agreements, kemVars>>

\* key.compute_public_key()
ComputePublicKey(k, fault) ==
  /\ keys[k].st = "live"
  /\ last' = [NoCall EXCEPT !.op = "compute_public_key", !.key = k,
                            !.inner = keys[k].inner, !.fault = fault,
                            !.result = compute_public_key(keys[k].inner, fault)]
  /\ UNCHANGED <<keys, agreements, kemVars>>

\* Mutant: the key is borrowed, not moved.
KeyAfterAgreeBorrowed(key) == key

\* The key object after agree_ephemeral(my_private_key, ..) took it by value.
KeyAfterAgree(key) == Moved

\* agree_ephemeral(key, &peer_public_key, error_value, kdf)
AgreeEphemeral(k, peer, kdf, fault) ==
  /\ keys[k].st = "live"
  /\ agreements[k] < MaxAgreements
  /\ LET a == agree_ephemeral(keys[k].inner, peer, error_value, kdf, fault)
     IN  last' = [op |-> "agree_ephemeral", key |-> k, inner |-> keys[k].inner,
                  peer |-> peer, kdf |-> kdf, fault |-> fault,
                  result |-> a.result, kdfCalls |-> a.kdfCalls,
                  calls |-> a.calls, gate |-> a.gate,
                  released |-> a.released, freed |-> a.freed,
                  handles |-> <<>>]
  /\ keys' = [keys EXCEPT ![k] = KeyAfterAgree(keys[k])]
  /\ agreements' = [agreements EXCEPT ![k] = @ + 1]
  /\ UNCHANGED kemVars

\* The key goes out of scope without having been used in an agreement.
DropKey(k) ==
  /\ keys[k].st = "live"
  /\ LET d == KeyInner_drop(keys[k].inner)
     IN  last' = [NoCall EXCEPT !.op = "drop", !.key = k,
                                !.inner = keys[k].inner,
                                !.released = d.released, !.freed = d.freed]
  /\ keys' = [keys EXCEPT ![k] = Dropped]
  /\ UNCHANGED <<agreements, kemVars>>

Next ==
  \/ \E k \in Keys, alg \in AlgorithmID, rng \in RngOutcomes :
       \E fault \in FaultsFor([alg |-> alg], GenerateFaults) :
         Generate(k, alg, rng, fault)
  \/ \E k \in Keys :
       \E fault \in {"none", "marshal_public_key_to_buffer"} :
         ComputePublicKey(k, fault)
  \/ \E k \in Keys, bytes \in PeerBytes, alg \in AlgorithmID, kdf \in KdfOutcomes :
       \E fault \in AgreeFaults :
         AgreeEphemeral(k, UnparsedPublicKey_new(alg, bytes), kdf, fault)
  \/ \E k \in Keys : DropKey(k)

Spec == Init /\ [][Next]_vars

\* ------------------------------------------------ key transport: actions
\* Coins of key generation and of encapsulation.  A behaviour generates one
\* key pair, so the behaviours of two seeds are copies of one another.
MaxKemSeed == 1
MaxCoins == 1

\* Mutant: the call takes the key by value.
KemKeyAfterCallConsumed(key) == Dropped

\* The key object after a call that takes &self: compute_public_key,
\* decapsulate, encapsulate.
KemKeyAfterCall(key) == key

KemCall(op, k, inner, input, kdf, fault, result) ==
  [NoCall EXCEPT !.op = op, !.key = k, !.inner = inner, !.peer = input,
                 !.kdf = kdf, !.fault = fault, !.result = result]

\* let generated = KemPrivateKey::generate(alg)
KemGenerate(alg, d, fault) ==
  /\ kemPriv["generated"] = Unborn
  /\ LET g == KemPrivateKey_generate(alg, d, fault)
     IN  /\ kemPriv' = [kemPriv EXCEPT !["generated"] =
                          IF g.result.ok
                          THEN KemLive(g.result.val, "generated", "generate")
                          ELSE Dropped]
         /\ last' = [KemCall("KemPrivateKey::generate", "generated", Unborn,
                             [alg |-> alg], Unborn, fault, g.result)
                       EXCEPT !.released = g.released,
                              !.handles =
                                KemPrivateKey_generate_handles(alg, d, fault)]
  /\ UNCHANGED <<agreementVars, kemPub, exchange>>

\* The raw private-key bytes a caller may hand to KemPrivateKey::new: the
\* as_ref bytes of a live key, one byte short, one byte long.
PrivImportInputs ==
  {KemPrivateKey_as_ref(kemPriv[k].inner) : k \in {j \in KemPrivs : kemPriv[j].st = "live"}}
    \cup {Fill(KYBER512_SECRETKEYBYTES - 1, 1),
          Fill(KYBER512_SECRETKEYBYTES + 1, 1)}

\* let imported = KemPrivateKey::new(alg, bytes)
KemPrivNew(alg, bytes, derives, fault) ==
  /\ kemPriv["imported"] = Unborn
  /\ LET r == KemPrivateKey_new(alg, bytes, derives, fault)
         exported == {k \in KemPrivs : /\ kemPriv[k].st = "live"
                                       /\ KemPrivateKey_as_ref(kemPriv[k].inner) = bytes}
         origin == IF exported = {} THEN "raw"
                   ELSE kemPriv[CHOOSE k \in exported : TRUE].origin
     IN  /\ kemPriv' = [kemPriv EXCEPT !["imported"] =
                          IF r.ok THEN KemLive(r.val, origin, "new") ELSE Unborn]
         /\ last' = [KemCall("KemPrivateKey::new", "imported", Unborn,
                             [alg |-> alg, bytes |-> bytes], Unborn, fault, r)
                       EXCEPT !.handles =
                         KemPrivateKey_new_handles(alg, bytes, derives, fault)]
  /\ UNCHANGED <<agreementVars, kemPub, exchange>>

\* let computed = key.compute_public_key()
KemComputePublicKey(k, fault) ==
  /\ kemPriv[k].st = "live"
  /\ LET r == KemPrivateKey_compute_public_key(kemPriv[k].inner, fault)
     IN  /\ kemPub' = IF r.ok
                      THEN [kemPub EXCEPT !["computed"] =
                              KemLive(r.val, kemPriv[k].origin, k)]
                      ELSE kemPub
         /\ last' = [KemCall("KemPrivateKey::compute_public_key", k,
                             kemPriv[k].inner, Unborn, Unborn, fault, r)
                       EXCEPT !.handles =
                         KemPrivateKey_compute_public_key_handles(
                           kemPriv[k].inner, fault)]
  /\ kemPriv' = [kemPriv EXCEPT ![k] = KemKeyAfterCall(kemPriv[k])]
  /\ UNCHANGED <<agreementVars, exchange>>

\* The raw public-key bytes a caller may hand to KemPublicKey::new: the as_ref
\* bytes of a live key, one byte short, one byte long.
PubImportInputs ==
  {KemPublicKey_as_ref(kemPub[k].inner) : k \in {j \in KemPubs : kemPub[j].st = "live"}}
    \cup {Fill(KYBER512_PUBLICKEYBYTES - 1, 1),
          Cat(Fill(KYBER512_PUBLICKEYBYTES, 9), Fill(1, 1))}

\* let imported = KemPublicKey::new(alg, bytes)
KemPubNew(alg, bytes, garbage, fault) ==
  /\ kemPub["imported"] = Unborn
  /\ LET r == KemPublicKey_new(alg, bytes, garbage, fault)
         exported == {k \in KemPubs : /\ kemPub[k].st = "live"
                                      /\ KemPublicKey_as_ref(kemPub[k].inner) = bytes}
         origin == IF exported = {} THEN "raw"
                   ELSE kemPub[CHOOSE k \in exported : TRUE].origin
     IN  /\ kemPub' = IF r.ok
                      THEN [kemPub EXCEPT !["imported"] =
                              KemLive(r.val, origin, "new")]
                      ELSE kemPub
         /\ last' = [KemCall("KemPublicKey::new", "imported", Unborn,
                             [alg |-> alg, bytes |-> bytes], Unborn, fault, r)
                       EXCEPT !.handles =
                         KemPublicKey_new_handles(alg, bytes, garbage, fault)]
  /\ UNCHANGED <<agreementVars, kemPriv, exchange>>

\* key.encapsulate(kdf), kdf keeping the ciphertext and the secret it is given.
Encapsulate(k, m, kdf, fault) ==
  /\ kemPub[k].st = "live"
  /\ LET e == encapsulate(kemPub[k].inner, m, kdf, fault)
     IN  /\ last' = [KemCall("KemPublicKey::encapsulate", k, kemPub[k].inner,
                             Unborn, kdf, fault, e.result)
                       EXCEPT !.kdfCalls = e.kdfCalls, !.released = e.released,
                              !.handles = KemCtx_handles(fault)]
         /\ exchange' = IF e.kdfCalls # <<>>
                        THEN [origin |-> kemPub[k].origin,
                              made |-> kemPub[k].made,
                              ciphertext |-> e.kdfCalls[1].ciphertext,
                              shared_secret |-> e.kdfCalls[1].shared_secret]
                        ELSE exchange
  /\ kemPub' = [kemPub EXCEPT ![k] = KemKeyAfterCall(kemPub[k])]
  /\ UNCHANGED <<agreementVars, kemPriv>>

\* The ciphertexts a caller may hand to decapsulate: the one kept from the
\* last encapsulation, one of another key, one byte short.
CiphertextInputs ==
  ({exchange.ciphertext} \ {<<>>})
    \cup {Fill(KYBER512_CIPHERTEXTBYTES, 9),
          Fill(KYBER512_CIPHERTEXTBYTES - 1, 9)}

\* key.decapsulate(&mut ciphertext, kdf)
Decapsulate(k, ciphertext, kdf, fault) ==
  /\ kemPriv[k].st = "live"
  /\ LET r == decapsulate(kemPriv[k].inner, ciphertext, kdf, fault)
     IN  last' = [KemCall("KemPrivateKey::decapsulate", k, kemPriv[k].inner,
                          [bytes |-> ciphertext], kdf, fault, r.result)
                    EXCEPT !.kdfCalls = r.kdfCalls, !.released = r.released,
                           !.handles = KemCtx_handles(fault)]
  /\ kemPriv' = [kemPriv EXCEPT ![k] = KemKeyAfterCall(kemPriv[k])]
  /\ UNCHANGED <<agreementVars, kemPub, exchange>>

\* A KemPrivateKey goes out of scope.
KemPrivDrop(k) ==
  /\ kemPriv[k].st = "live"
  /\ LET d == KemPrivateKey_drop(kemPriv[k].inner)
     IN  last' = [KemCall("KemPrivateKey::drop", k, kemPriv[k].inner, Unborn,
                          Unborn, "none", Unborn)
                    EXCEPT !.released = d.released, !.freed = d.freed,
                           !.handles = <<Free("EVP_PKEY")>>]
  /\ kemPriv' = [kemPriv EXCEPT ![k] = Dropped]
  /\ UNCHANGED <<agreementVars, kemPub, exchange>>

KemKdfOutcomes == {Ok("R"), Err(Unspecified)}

\* The outcomes of kdf that make a difference: it is invoked only when the
\* provider does not fail.
KdfFor(fault) == IF fault = "none" THEN KemKdfOutcomes ELSE {Ok("R")}

NextKem ==
  \/ \E alg \in KemAlgorithm, d \in 1..MaxKemSeed :
       \E fault \in {"none", "EVP_PKEY_CTX_new_id", "EVP_PKEY_keygen_init",
                     "EVP_PKEY_CTX_kem_set_params", "EVP_PKEY_keygen",
                     "EVP_PKEY_get_raw_private_key"} :
         KemGenerate(alg, d, fault)
  \/ \E alg \in KemAlgorithm, bytes \in PrivImportInputs, derives \in BOOLEAN :
       \E fault \in {"none", "EVP_PKEY_kem_new_raw_secret_key"} :
         KemPrivNew(alg, bytes, derives, fault)
  \/ \E k \in KemPrivs :
       \E fault \in {"none", "EVP_PKEY_get_raw_public_key",
                     "EVP_PKEY_kem_new_raw_public_key"} :
         KemComputePublicKey(k, fault)
  \/ \E alg \in KemAlgorithm, bytes \in PubImportInputs, garbage \in {0, 9} :
       \E fault \in {"none", "EVP_PKEY_kem_new_raw_public_key"} :
         KemPubNew(alg, bytes, garbage, fault)
  \/ \E k \in KemPubs, m \in 1..MaxCoins :
       \E fault \in {"none", "EVP_PKEY_CTX_new", "EVP_PKEY_encapsulate"} :
         \E kdf \in KdfFor(fault) : Encapsulate(k, m, kdf, fault)
  \/ \E k \in KemPrivs, ciphertext \in CiphertextInputs :
       \E fault \in {"none", "EVP_PKEY_CTX_new", "EVP_PKEY_decapsulate"} :
         \E kdf \in KdfFor(fault) : Decapsulate(k, ciphertext, kdf, fault)
  \/ \E k \in KemPrivs : KemPrivDrop(k)

SpecKem == Init /\ [][NextKem]_vars

\* ----------------------------------------------------------- both engines
\* The engines share no state, so a behaviour that exercises both is an
\* interleaving of two independent ones: here a behaviour runs one engine.
AgreementOps == {"generate", "compute_public_key", "agree_ephemeral", "drop"}

AgreementUntouched ==
  /\ keys = [k \in Keys |-> Unborn]
  /\ last.op \notin AgreementOps

KemUntouched ==
  /\ kemPriv = [k \in KemPrivs |-> Unborn]
  /\ kemPub = [k \in KemPubs |-> Unborn]
  /\ last.op \in AgreementOps \cup {"none"}

NextBoth ==
  \/ KemUntouched /\ Next
  \/ AgreementUntouched /\ NextKem

SpecBoth == Init /\ [][NextBoth]_vars

\* ------------------------------------------------- claims: key agreement
IsAgree == last.op = "agree_ephemeral"

\* The gates of agree_ephemeral, stated on the call's inputs.
GateAlgorithm == last.peer.alg = last.inner.alg
GateLength == ByteLen(last.peer.bytes) = pub_key_len(last.inner.alg)
GatePoint ==
  last.inner.alg # "X25519" =>
    /\ ValidPoint(nid(last.inner.alg), last.peer.bytes)
    /\ last.inner.ec_key.group = nid(last.inner.alg)
GateProvider ==
  IF last.inner.alg = "X25519"
  THEN aws_lc_X25519(last.inner.priv, last.peer.bytes).flag = 1
  ELSE last.fault = "none"
AllGatesPass == GateAlgorithm /\ GateLength /\ GatePoint /\ GateProvider

\* The raw secret the provider computes for the call's inputs.
RawSecret ==
  IF last.inner.alg = "X25519"
  THEN aws_lc_X25519(last.inner.priv, last.peer.bytes).out
  ELSE ECDH_compute_key(FieldBytes(nid(last.inner.alg)), last.peer.bytes,
                        last.inner.ec_key, "none").out

\* C1: agree_ephemeral with a private key of algorithm A and a peer key tagged
\* with another algorithm B returns Err(error_value), invokes kdf never and
\* makes no provider call, whatever the peer bytes are.
C1_AlgorithmMismatchRejected ==
  (IsAgree /\ last.peer.alg # last.inner.alg) =>
    /\ last.result = Err(error_value)
    /\ last.kdfCalls = <<>>
    /\ last.calls = <<>>

\* C1 witness: a P-256 key meets a well-formed P-256 point tagged X25519.
C1_Witness ==
  /\ IsAgree
  /\ last.inner.alg = "ECDH_P256"
  /\ last.peer = UnparsedPublicKey_new("X25519", WellFormed("ECDH_P256", 1))
  /\ last.kdf = Ok("R")
  /\ last.result = Err(error_value)

\* C2: a peer key with the private key's tag whose length is not the exact
\* wire length of the algorithm (65, 97, 32) is rejected with Err(error_value)
\* before any provider call and without invoking kdf.
C2_LengthMismatchRejected ==
  (IsAgree /\ GateAlgorithm /\ ~GateLength) =>
    /\ last.result = Err(error_value)
    /\ last.kdfCalls = <<>>
    /\ last.calls = <<>>

\* C2 witness: an X25519 key meets 33 bytes tagged X25519.
C2_Witness ==
  /\ IsAgree
  /\ last.inner.alg = "X25519"
  /\ last.peer.alg = "X25519"
  /\ ByteLen(last.peer.bytes) = 33
  /\ last.kdf = Ok("R")
  /\ last.result = Err(error_value)

\* C3: kdf is invoked only if every gate passed, in order (algorithm, length,
\* point and group for EC, provider success); if any gate fails the call
\* returns Err(error_value), kdf is not invoked, and the provider calls made
\* are those up to the failing one.
C3_KdfOnlyAfterAllGates ==
  IsAgree =>
    /\ last.kdfCalls # <<>> => AllGatesPass
    /\ ~AllGatesPass => (last.result = Err(error_value) /\ last.kdfCalls = <<>>)
    /\ ~(GateAlgorithm /\ GateLength) => last.calls = <<>>
    /\ last.inner.alg # "X25519" =>
         /\ last.calls = SubSeq(EcdhSteps, 1, Len(last.calls))
         /\ last.kdfCalls # <<>> => last.calls = EcdhSteps

\* C3 witness: the provider's ECDH reports a non-positive length after every
\* earlier gate passed.
C3_Witness ==
  /\ IsAgree
  /\ GateAlgorithm /\ GateLength /\ GatePoint
  /\ last.fault = "ECDH_compute_key"
  /\ last.calls = EcdhSteps
  /\ last.kdf = Ok("R")
  /\ last.result = Err(error_value)

\* C4: when all gates pass, kdf is invoked exactly once, with the raw secret
\* (the first bytes of the call's secret buffer), and the call returns what
\* kdf returned.
C4_KdfOnceAndResultReturned ==
  (IsAgree /\ AllGatesPass) =>
    /\ Len(last.kdfCalls) = 1
    /\ last.kdfCalls[1] = RawSecret
    /\ last.kdfCalls[1] =
         Prefix(last.released[1].bytes, ByteLen(last.kdfCalls[1]))
    /\ last.result = last.kdf

\* C4 witness: all gates pass on P-384 and kdf fails with its own error.
C4_Witness ==
  /\ IsAgree /\ AllGatesPass
  /\ last.inner.alg = "ECDH_P384"
  /\ last.kdf = Err("kdf_error")
  /\ last.result = Err("kdf_error")
  /\ ByteLen(last.kdfCalls[1]) = 48

\* Some operation on key k can be called.
Usable(k) ==
  \/ ENABLED (\E fault \in {"none"} : ComputePublicKey(k, fault))
  \/ ENABLED (\E bytes \in PeerBytes, alg \in AlgorithmID :
                AgreeEphemeral(k, UnparsedPublicKey_new(alg, bytes), Ok("R"), "none"))

\* C5: a key takes part in at most one agree_ephemeral call; after the call,
\* whatever its outcome, the key is gone and no operation can use it;
\* compute_public_key leaves the key as it was.
C5_SingleUse ==
  /\ \A k \in Keys :
       /\ agreements[k] <= 1
       /\ agreements[k] = 1 => (keys[k].st # "live" /\ ~Usable(k))
  /\ IsAgree => keys[last.key].st # "live"
  /\ last.op = "compute_public_key" => keys[last.key] = Live(last.inner)

\* C5 witness: an agreement that failed at the first gate has consumed the key.
C5_Witness ==
  /\ IsAgree
  /\ last.gate = "algorithm"
  /\ agreements[last.key] = 1
  /\ keys[last.key] = Moved

\* ------------------------------------------------ claims: key transport
IsDecapsulate == last.op = "KemPrivateKey::decapsulate"

\* C6: for a generated key pair, encapsulate on the public key computed from
\* it, then decapsulate on the generated private key with the ciphertext the
\* encapsulate kdf was given, hands the decapsulate kdf the secret the
\* encapsulate kdf was given (and does invoke it, the provider not failing).
C6_RoundTrip ==
  ( /\ IsDecapsulate
    /\ last.key = "generated"
    /\ exchange.made = "generated"
    /\ last.peer.bytes = exchange.ciphertext ) =>
      /\ last.fault = "none" => Len(last.kdfCalls) = 1
      /\ last.kdfCalls # <<>> => last.kdfCalls[1] = exchange.shared_secret

\* C6 witness: such a decapsulation whose kdf was given the (non-zero) secret.
C6_Witness ==
  /\ IsDecapsulate
  /\ last.key = "generated"
  /\ exchange.made = "generated"
  /\ last.peer.bytes = exchange.ciphertext
  /\ last.kdfCalls = <<exchange.shared_secret>>
  /\ ~IsZero(exchange.shared_secret)
  /\ ByteLen(exchange.shared_secret) = KYBER512_BYTES
  /\ last.result = Ok("R")

\* The live key objects made by new from the as_ref bytes of the generated
\* private key / of the public key computed from it.
ReimportedPriv ==
  /\ kemPriv["imported"].st = "live"
  /\ kemPriv["imported"].origin = "generated"
ReimportedPub ==
  /\ kemPub["imported"].st = "live"
  /\ kemPub["imported"].origin = "generated"

\* C7, first part: new on exported bytes succeeds (the provider not failing
\* internally) and the key has the same algorithm and the same as_ref bytes.
C7_ReimportSameKey ==
  /\ ( /\ last.op = "KemPrivateKey::new"
       /\ kemPriv["generated"].st = "live"
       /\ last.peer.bytes = KemPrivateKey_as_ref(kemPriv["generated"].inner)
       /\ last.fault = "none" ) =>
         /\ last.result.ok
         /\ last.result.val.algorithm = kemPriv["generated"].inner.algorithm
         /\ KemPrivateKey_as_ref(last.result.val) = last.peer.bytes
         /\ kemPriv["imported"].inner = last.result.val
  /\ ( /\ last.op = "KemPublicKey::new"
       /\ kemPub["computed"].st = "live"
       /\ last.peer.bytes = KemPublicKey_as_ref(kemPub["computed"].inner)
       /\ last.fault = "none" ) =>
         /\ last.result.ok
         /\ last.result.val.algorithm = kemPub["computed"].inner.algorithm
         /\ KemPublicKey_as_ref(last.result.val) = last.peer.bytes
         /\ kemPub["imported"].inner = last.result.val

\* C7, second part: a ciphertext encapsulated for the generated key pair, by
\* the computed or by the re-imported public key, decapsulates to the same
\* secret under the generated and under the re-imported private key.
C7_ReimportInterop ==
  ( /\ IsDecapsulate
    /\ kemPriv[last.key].origin = "generated"
    /\ exchange.origin = "generated"
    /\ last.peer.bytes = exchange.ciphertext ) =>
      /\ last.fault = "none" => Len(last.kdfCalls) = 1
      /\ last.kdfCalls # <<>> => last.kdfCalls[1] = exchange.shared_secret

\* C7, third part: the re-imported private key derives the public key the
\* original derives.
C7_ReimportDerivesPublicKey ==
  ( /\ last.op = "KemPrivateKey::compute_public_key"
    /\ last.key = "imported"
    /\ ReimportedPriv
    /\ kemPriv["generated"].st = "live"
    /\ last.fault = "none" ) =>
      /\ last.result.ok
      /\ KemPublicKey_as_ref(last.result.val) =
           KemPublicKey_as_ref(
             KemPrivateKey_compute_public_key(kemPriv["generated"].inner, "none").val)

C8_WrongLengthRejected ==
  /\ ( /\ last.op = "KemPrivateKey::new"
       /\ ByteLen(last.peer.bytes) # get_privkey_len(last.peer.alg) ) =>
         (last.result = Err(KeyRejected) /\ kemPriv["imported"] = Unborn)
  /\ ( /\ last.op = "KemPublicKey::new"
       /\ ByteLen(last.peer.bytes) # get_pubkey_len(last.peer.alg) ) =>
         (last.result = Err(KeyRejected) /\ kemPub["imported"] = Unborn)

\* The buffers that hold a shared secret or a private seed while a call runs.
SecretBuffers ==
  {"agree_ephemeral::buffer", "generate::priv_key",
   "encapsulate::shared_secret", "decapsulate::shared_secret"}

\* C9: every secret-bearing intermediate buffer is all zeros at the moment it
\* is released, on every exit path.
C9_SecretBuffersZeroAtRelease ==
  \A i \in DOMAIN last.released :
    last.released[i].buf \in SecretBuffers => IsZero(last.released[i].bytes)

\* C10: when a private key object is destroyed, every copy of raw private-key
\* bytes it owns is all zeros before the memory is released.
C10_PrivateKeyBytesZeroAtDestruction ==
  \A i \in DOMAIN last.released :
    last.released[i].buf \in {"KeyInner::X25519", "KemPrivateKey::priv_key"}
      => IsZero(last.released[i].bytes)

\* --------------------------------------- claims: key transport, continued
IsEncapsulate == last.op = "KemPublicKey::encapsulate"

\* Whether the provider's encapsulation fails in the last call (its verdict
\* does not depend on the coins).
EncapsProviderFails ==
  EVP_PKEY_encapsulate(last.inner.context, 1, last.fault).ret # 1

\* C11: encapsulate, when the provider's encapsulation fails, releases the
\* ciphertext and shared-secret buffers zeroed, returns Err(Unspecified) and
\* does not invoke kdf; when it succeeds, kdf is invoked exactly once with a
\* 768-byte ciphertext and a 32-byte shared secret, and what kdf returns is
\* returned unchanged.
C11_EncapsulateOutcome ==
  (IsEncapsulate /\ last.fault # "EVP_PKEY_CTX_new") =>
    IF EncapsProviderFails
    THEN /\ last.result = Err(Unspecified)
         /\ last.kdfCalls = <<>>
         /\ Len(last.released) = 2
         /\ last.released[1].buf = "encapsulate::ciphertext"
         /\ last.released[1].bytes = Fill(KYBER512_CIPHERTEXTBYTES, 0)
         /\ last.released[2].buf = "encapsulate::shared_secret"
         /\ last.released[2].bytes = Fill(KYBER512_BYTES, 0)
    ELSE /\ Len(last.kdfCalls) = 1
         /\ ByteLen(last.kdfCalls[1].ciphertext) = KYBER512_CIPHERTEXTBYTES
         /\ ByteLen(last.kdfCalls[1].shared_secret) = KYBER512_BYTES
         /\ last.result = last.kdf

\* C11 witness: an encapsulation the provider failed, both buffers released
\* zeroed, while kdf would have returned Ok.
C11_Witness ==
  /\ IsEncapsulate
  /\ last.fault = "EVP_PKEY_encapsulate"
  /\ last.kdf = Ok("R")
  /\ last.result = Err(Unspecified)
  /\ last.kdfCalls = <<>>
  /\ Len(last.released) = 2
  /\ IsZero(last.released[1].bytes)
  /\ IsZero(last.released[2].bytes)

\* Whether the provider fails to recover the secret in the last call.
DecapsProviderFails ==
  EVP_PKEY_decapsulate(last.inner.context, last.peer.bytes,
                       ByteLen(last.peer.bytes), last.fault).ret # 1

\* C12: decapsulate, when the provider fails to recover the secret, releases
\* the shared-secret buffer zeroed, returns Err(Unspecified) and does not
\* invoke kdf; when it succeeds, kdf is invoked exactly once with the 32-byte
\* secret the provider recovered and what kdf returns is returned unchanged.
C12_DecapsulateOutcome ==
  (IsDecapsulate /\ last.fault # "EVP_PKEY_CTX_new") =>
    IF DecapsProviderFails
    THEN /\ last.result = Err(Unspecified)
         /\ last.kdfCalls = <<>>
         /\ Len(last.released) = 1
         /\ last.released[1].buf = "decapsulate::shared_secret"
         /\ last.released[1].bytes = Fill(KYBER512_BYTES, 0)
    ELSE /\ Len(last.kdfCalls) = 1
         /\ last.kdfCalls[1] =
              EVP_PKEY_decapsulate(last.inner.context, last.peer.bytes,
                                   ByteLen(last.peer.bytes), last.fault).shared_secret
         /\ ByteLen(last.kdfCalls[1]) = KYBER512_BYTES
         /\ last.result = last.kdf

\* C12 witness: a decapsulation of a well-sized ciphertext the provider
\* failed, the buffer released zeroed, while kdf would have returned Ok.
C12_Witness ==
  /\ IsDecapsulate
  /\ last.fault = "EVP_PKEY_decapsulate"
  /\ ByteLen(last.peer.bytes) = KYBER512_CIPHERTEXTBYTES
  /\ last.kdf = Ok("R")
  /\ last.result = Err(Unspecified)
  /\ last.kdfCalls = <<>>
  /\ Len(last.released) = 1
  /\ IsZero(last.released[1].bytes)

\* C13: KEM keys are reusable and read-only.  compute_public_key and
\* decapsulate leave every private key object as it was (algorithm, provider
\* handle, raw bytes) and live, whether they succeed or fail; encapsulate
\* leaves every public key object as it was and live; a live private key
\* object never changes, so its as_ref bytes stay those of its construction.
C13_KemKeysReadOnly ==
  [][ /\ last'.op \in {"KemPrivateKey::decapsulate",
                        "KemPrivateKey::compute_public_key"} =>
          /\ kemPriv' = kemPriv
          /\ kemPriv'[last'.key].st = "live"
          /\ kemPriv'[last'.key].inner = last'.inner
          /\ kemPub'["imported"] = kemPub["imported"]
      /\ last'.op = "KemPublicKey::encapsulate" =>
          /\ kemPub' = kemPub
          /\ kemPub'[last'.key].st = "live"
          /\ kemPub'[last'.key].inner = last'.inner
          /\ kemPriv' = kemPriv
      /\ \A k \in KemPrivs :
           (kemPriv[k].st = "live" /\ kemPriv'[k].st = "live") =>
             kemPriv'[k] = kemPriv[k] ]_vars

\* C13 witness: the generated private key, after compute_public_key and a
\* successful decapsulate of a ciphertext made for it, is live and holds the
\* bytes key generation gave it; the computed public key is live after its
\* encapsulate.
C13_Witness ==
  /\ IsDecapsulate
  /\ last.key = "generated"
  /\ exchange.made = "generated"
  /\ last.peer.bytes = exchange.ciphertext
  /\ last.result.ok
  /\ kemPriv["generated"].st = "live"
  /\ kemPriv["generated"].inner = last.inner
  /\ \E d \in 1..MaxKemSeed : KemPrivateKey_as_ref(last.inner) = KemSk(d)
  /\ kemPub["computed"].st = "live"

\* ---------------------------------------- claims: key agreement, continued
IsComputePublicKey == last.op = "compute_public_key"

\* The public value the provider derives from the private key in inner.
ProviderPublicValue(inner) ==
  IF inner.alg = "X25519" THEN X25519_public_from_private(inner.priv)
  ELSE marshal_public_key_to_buffer(inner.ec_key, "none").val

\* C14: compute_public_key leaves the private key as it was and usable; the
\* PublicKey it returns carries the key's algorithm, its as_ref has that
\* algorithm's wire length (65, 97, 32) and is the public value of the key's
\* seed, so that a second call on the key, or a call on a key of the same
\* seed, returns the same bytes.
C14_ComputePublicKeyPure ==
  [][ last'.op = "compute_public_key" =>
        /\ keys' = keys
        /\ keys'[last'.key] = Live(last'.inner)
        /\ last'.result.ok =>
             /\ last'.result.val.alg = last'.inner.alg
             /\ ByteLen(PublicKey_as_ref(last'.result.val)) =
                  pub_key_len(last'.inner.alg)
             /\ PublicKey_as_ref(last'.result.val) =
                  ProviderPublicValue(last'.inner)
        /\ ( /\ IsComputePublicKey
             /\ last.key = last'.key
             /\ last.result.ok
             /\ last'.result.ok ) => last'.result = last.result ]_vars

\* C14 witness: a P-256 key, still live, whose public key of 65 bytes has
\* just been computed.
C14_Witness ==
  /\ IsComputePublicKey
  /\ last.result.ok
  /\ last.inner.alg = "ECDH_P256"
  /\ last.result.val.alg = "ECDH_P256"
  /\ ByteLen(PublicKey_as_ref(last.result.val)) = 65
  /\ keys[last.key] = Live(last.inner)

\* C15: agree_ephemeral with an X25519 private key and a 32-byte X25519 peer
\* key for which the raw X25519 output is all zero returns Err(error_value)
\* and does not invoke kdf.
C15_X25519ZeroOutputRejected ==
  ( /\ IsAgree
    /\ last.inner.alg = "X25519"
    /\ last.peer.alg = "X25519"
    /\ ByteLen(last.peer.bytes) = X25519_PUBLIC_VALUE_LEN
    /\ IsZero(aws_lc_X25519(last.inner.priv, last.peer.bytes).out) ) =>
      /\ last.result = Err(error_value)
      /\ last.kdfCalls = <<>>

\* C15 witness: such an agreement, refused after the X25519 call, while kdf
\* would have returned Ok.
C15_Witness ==
  /\ IsAgree
  /\ last.inner.alg = "X25519"
  /\ last.peer.alg = "X25519"
  /\ ByteLen(last.peer.bytes) = X25519_PUBLIC_VALUE_LEN
  /\ IsZero(aws_lc_X25519(last.inner.priv, last.peer.bytes).out)
  /\ last.calls = <<"X25519">>
  /\ last.kdf = Ok("R")
  /\ last.result = Err(error_value)
  /\ last.kdfCalls = <<>>

\* ------------------------------------------------- claims: error reporting
KemNewOps == {"KemPrivateKey::new", "KemPublicKey::new"}
KemUnspecifiedOps ==
  {"KemPrivateKey::generate", "KemPrivateKey::compute_public_key",
   "KemPublicKey::encapsulate", "KemPrivateKey::decapsulate"}

\* C16: the error kinds are never confused and a failed provider call is not
\* retried.  KemPrivateKey::new and KemPublicKey::new fail with KeyRejected and
\* nothing else does; generate, compute_public_key, encapsulate and
\* decapsulate fail with Unspecified, and do fail when a provider call of
\* theirs fails; agree_ephemeral reports every failure of a gate or of the
\* provider as the caller's error_value, making each provider call at most
\* once and none after the one that failed.
C16_ErrorKinds ==
  /\ last.op \in KemNewOps =>
       /\ ~last.result.ok => last.result = Err(KeyRejected)
       /\ last.fault # "none" => ~last.result.ok
  /\ (last.op \notin KemNewOps /\ last.op # "agree_ephemeral"
        /\ last.result # Unborn) =>
       last.result # Err(KeyRejected)
  /\ ( /\ last.op \in KemUnspecifiedOps \cup {"generate", "compute_public_key"}
       /\ ~last.result.ok ) => last.result = Err(Unspecified)
  /\ (last.op \in KemUnspecifiedOps /\ last.fault # "none") =>
       (last.result = Err(Unspecified) /\ last.kdfCalls = <<>>)
  /\ IsAgree =>
       /\ last.gate # "none" =>
            (last.result = Err(error_value) /\ last.kdfCalls = <<>>)
       /\ last.gate = "none" => last.result = last.kdf
       /\ \A i, j \in DOMAIN last.calls :
            last.calls[i] = last.calls[j] => i = j
       /\ (last.fault \in {last.calls[i] : i \in DOMAIN last.calls}) =>
            (last.calls[Len(last.calls)] = last.fault /\ last.gate = "provider")

\* C16 witness: compute_public_key whose provider import of the exported
\* public bytes failed, reported as Unspecified although the same provider
\* call reports KeyRejected from KemPublicKey::new.
C16_Witness ==
  /\ last.op = "KemPrivateKey::compute_public_key"
  /\ last.fault = "EVP_PKEY_kem_new_raw_public_key"
  /\ last.result = Err(Unspecified)
  /\ kemPriv[last.key].st = "live"

\* ----------------------------------------------------- claims: generation
IsGenerate == last.op = "generate"

\* The bytes the random source filled the seed buffer with in the last call.
RandomBytes == Fill(PrivateKeyLen(last.peer.alg), last.peer.rng.byte)

\* Whether the provider rejects those bytes as a scalar of the curve.
ScalarRejected ==
  ~ec_key_from_private(nid(last.peer.alg), RandomBytes, "none").ok

\* C17: generate returns Err(Unspecified) and makes no key when the random
\* source fails, or when, for P-256 and P-384, the provider rejects the
\* random bytes as a scalar; a key that is made has the requested algorithm
\* and holds exactly the random bytes; for X25519 generate succeeds whenever
\* the random source does.
C17_GenerateOutcome ==
  IsGenerate =>
    /\ ~last.peer.rng.ok =>
         (last.result = Err(Unspecified) /\ keys[last.key] = Dropped)
    /\ (last.peer.rng.ok /\ last.peer.alg # "X25519" /\ ScalarRejected) =>
         (last.result = Err(Unspecified) /\ keys[last.key] = Dropped)
    /\ (last.peer.rng.ok /\ last.peer.alg = "X25519") =>
         /\ last.result = Ok(KeyInner_X25519(RandomBytes))
         /\ ByteLen(last.result.val.priv) = 32
    /\ last.result.ok =>
         /\ last.result.val.alg = last.peer.alg
         /\ keys[last.key] = Live(last.result.val)
         /\ last.peer.alg # "X25519" =>
              last.result.val.ec_key.priv = RandomBytes
    /\ ~last.result.ok => last.result = Err(Unspecified)

\* C17 witness: a P-384 generation whose random bytes (all 0xFF) the provider
\* rejects, without any internal fault: Err(Unspecified) and no key.
C17_Witness ==
  /\ IsGenerate
  /\ last.peer.alg = "ECDH_P384"
  /\ last.peer.rng.ok
  /\ last.peer.rng.byte = 255
  /\ last.fault = "none"
  /\ ScalarRejected
  /\ last.result = Err(Unspecified)
  /\ keys[last.key] = Dropped

\* ---------------------------------------------------- claims: KEM handles
KemConstructors ==
  {"KemPrivateKey::generate", "KemPrivateKey::new",
   "KemPrivateKey::compute_public_key", "KemPublicKey::new"}

\* How many events e the last call made.
HandleEvents(e) == Cardinality({i \in DOMAIN last.handles : last.handles[i] = e})

\* The handles the last call started with (the key's own, when it is dropped)
\* and those it hands to the key object it returns.
HeldAtEntry(h) ==
  IF last.op = "KemPrivateKey::drop" /\ h = "EVP_PKEY" THEN 1 ELSE 0
OwnedAtExit(h) ==
  IF last.op \in KemConstructors /\ last.result.ok /\ h = "EVP_PKEY" THEN 1 ELSE 0

\* C18: every provider handle of the KEM engine has one owner and is released
\* exactly once on every path.  In each call, a handle that came to exist is,
\* at the call's end, either freed once or owned by the one key object the
\* call returns; nothing is freed that was not held, or twice; a failing call
\* keeps no handle; and every live key object holds a (non-null) handle.
C18_HandlesReleasedOnce ==
  /\ \A h \in {"EVP_PKEY_CTX", "EVP_PKEY"} :
       /\ HeldAtEntry(h) + HandleEvents(New(h)) =
            HandleEvents(Free(h)) + OwnedAtExit(h)
       /\ HandleEvents(New(h)) <= 1
       /\ HandleEvents(Free(h)) <= 1
       /\ \A i \in DOMAIN last.handles :
            (last.handles[i] = Free(h) /\ HeldAtEntry(h) = 0) =>
              \E j \in 1..(i - 1) : last.handles[j] = New(h)
  /\ (last.op \in KemConstructors /\ last.result.ok) =>
       ~last.result.val.context.null
  /\ \A k \in KemPrivs : kemPriv[k].st = "live" => ~kemPriv[k].inner.context.null
  /\ \A k \in KemPubs : kemPub[k].st = "live" => ~kemPub[k].inner.context.null

\* C18 witness: KemPrivateKey::generate failing at the export of the raw
\* private key, after the keygen context and the generated key came to
\* exist: both are freed and no key is returned.
C18_Witness ==
  /\ last.op = "KemPrivateKey::generate"
  /\ last.fault = "EVP_PKEY_get_raw_private_key"
  /\ last.result = Err(Unspecified)
  /\ last.handles = <<New("EVP_PKEY_CTX"), New("EVP_PKEY"),
                      Free("EVP_PKEY_CTX"), Free("EVP_PKEY")>>
  /\ kemPriv["generated"] = Dropped

\* C19: for every KEM key object that exists, the bytes as_ref returns are
\* the raw key material its provider handle holds, whichever way the key
\* was made.
C19_AsRefIsHandleMaterial ==
  /\ \A k \in KemPrivs :
       kemPriv[k].st = "live" =>
         KemPrivateKey_as_ref(kemPriv[k].inner) = kemPriv[k].inner.context.sk
  /\ \A k \in KemPubs :
       kemPub[k].st = "live" =>
         KemPublicKey_as_ref(kemPub[k].inner) = kemPub[k].inner.context.pk

====
